---- MODULE Spec2Model ----
(***************************************************************************)
(* The pacer (BeforeRequest / AfterRequest / OnRateLimitError) and the     *)
(* request dispatchers of go-crypto-dot-com:                               *)
(*   package "client"  : src/client.go        get_v1, get_v2, post         *)
(*   package "part000" : src/unnamed/part_000 get, post                    *)
(* The two packages hold the same pacer code and the same package-level    *)
(* state (cooldown, lastRequest); a behaviour runs one of them.            *)
(*                                                                         *)
(* Time is an integer tick clock.  Rates are kept in requests per Minute   *)
(* (Minute ticks), so that the cooldown rate, 1 request per minute, is the *)
(* integer 1; the period 1/rps of the code is Minute \div rps ticks.       *)
(***************************************************************************)
EXTENDS Integers, Sequences, FiniteSets, TLC

(* ------------------------------ bounds --------------------------------- *)

\* ticks in one minute (the time scale of the model)
Minute == 4

\* the clock stops advancing here
MaxTime == 10

\* the clock stops advancing here when two callers run
MaxTimeConc == 5

\* the callers (goroutines) a behaviour may run
Procs == {1, 2}

\* the runs of the signing step that are compared
Runs == {1, 2}

\* the last page index a paged operation is followed to
MaxPage == 4

\* the most answers of status 429 the exchange gives to one call when it
\* is to answer otherwise in the end
MaxRejects == 3

(* ------------------------- program constants --------------------------- *)

RATE_LIMIT_NORMAL == 0

RATE_LIMIT_COOL_DOWN == 1

\* the zero time.Time, the value lastRequest holds before the first request
ZeroTime == 0

\* time.Since saturates at the largest Duration when measured from ZeroTime
MaxDuration == 1000000

StatusOK == 200

StatusTooManyRequests == 429

StatusInternalServerError == 500

\* requests per Minute: the normal rate is one request per tick (the fastest
\* the tick clock resolves), the cooldown rate is 1 request per minute
RequestsPerSecond ==
  [r \in {RATE_LIMIT_NORMAL, RATE_LIMIT_COOL_DOWN} |->
     IF r = RATE_LIMIT_NORMAL THEN Minute ELSE 1]

\* the rps arguments the operations hand to post; 0 asks for the normal rate
RpsArgs == {0, 2}

\* float64(time.Second) / rps, in ticks
Period(rps) == Minute \div rps

(* ------------------------------ values --------------------------------- *)

Absent == "absent"

Nil == << >>

PATH == "PATH"

QUERY == "QUERY"

PAYLOAD == "PAYLOAD"

Packages == {"client", "part000"}

Dispatchers(pk) ==
  IF pk = "client" THEN {"get_v1", "get_v2", "post"} ELSE {"get", "post"}

\* the dispatchers that wrap the attempt in a for-loop
Looping(pk, f) == (pk = "part000") \/ (f = "post")

\* the dispatchers of the {code|msg, data} protocol family
ProtocolV1(pk, f) == pk = "client" /\ f \in {"get_v1", "post"}

Method(f) == IF f = "post" THEN "POST" ELSE "GET"

StatusText(s) ==
  CASE s = StatusOK -> "200 OK"
    [] s = StatusTooManyRequests -> "429 Too Many Requests"
    [] OTHER -> "500 Internal Server Error"

\* response bodies: valid = the body is a JSON object
NotJson ==
  [valid |-> FALSE, msg |-> Absent, code |-> Absent, message |-> Absent,
   details |-> Absent, payload |-> Absent]

Body(m, c, mg, d, pl) ==
  [valid |-> TRUE, msg |-> m, code |-> c, message |-> mg, details |-> d,
   payload |-> pl]

Bodies ==
  { NotJson,
    Body("suc", "0", Absent, Absent, PAYLOAD),
    Body("ERR", "10001", Absent, Absent, Absent),
    Body(Absent, "0", Absent, Absent, PAYLOAD),
    Body(Absent, "10001", "INVALID_PARAM", Absent, Absent),
    Body(Absent, "10001", "INVALID_PARAM", "DETAILS", Absent),
    Body(Absent, "10001", Absent, Absent, Absent) }

Statuses == {StatusOK, StatusTooManyRequests, StatusInternalServerError}

\* what the transport hands back: an error, or a response whose body may
\* fail to be read
NetErr == [kind |-> "neterr", status |-> 0, readok |-> FALSE, body |-> NotJson]

NoResp == [kind |-> "none", status |-> 0, readok |-> FALSE, body |-> NotJson]

Responses ==
  {NetErr} \cup
  [kind : {"resp"}, status : Statuses, readok : {TRUE}, body : Bodies] \cup
  [kind : {"resp"}, status : Statuses, readok : {FALSE}, body : {NotJson}]

(* ------------------------------- state --------------------------------- *)

VARIABLES
  pkg,          \* the package the behaviour runs
  callers,      \* the goroutines that call dispatchers
  now,          \* the clock
  cooldown,     \* var cooldown bool
  lastRequest,  \* var lastRequest time.Time
  pc,           \* per caller: position in the dispatcher
  fn,           \* per caller: the dispatcher called
  rps,          \* per caller: the rps handed to BeforeRequest
  query,        \* per caller: params != nil (GET) / business params given
  urlOk,        \* per caller: client.URL parses
  elapsed,      \* per caller: BeforeRequest's local elapsed
  rate,         \* per caller: BeforeRequest's rps after the resolution
  slept,        \* per caller: the duration handed to time.Sleep (0: no sleep)
  wake,         \* per caller: the instant time.Sleep may return
  resp,         \* per caller: what the transport returned to the attempt
  code,         \* per caller: the attempt's status code result
  data,         \* per caller: the attempt's payload result
  err,          \* per caller: the attempt's error result
  hist,         \* per caller, history of the call in progress: BeforeRequest
                \* returns, AfterRequest calls, OnRateLimitError calls,
                \* transmissions, answers of status 429, and the ticks
                \* between its last transmission and the one before it
  afterReject,  \* history: BeforeRequest calls since the last OnRateLimitError
  lastSent,     \* history: the instant of the last transmission
  rejectAt,     \* history: the instant of a 429 no transmission has followed
  coolGap       \* history: ticks from that 429 to the transmission after it

\* the pacer and the dispatchers
pacerVars ==
  << pkg, callers, now, cooldown, lastRequest, pc, fn, rps, query, urlOk,
     elapsed, rate, slept, wake, resp, code, data, err, hist,
     afterReject, lastSent, rejectAt, coolGap >>

\* the signing step of post, run twice (Runs) to compare two signatures
VARIABLES
  quantity,     \* per run: the numeral the caller wrote for the quantity
  params,       \* per run: the parameter map handed to the signing step
  keys,         \* per run: the slice keys
  buf,          \* per run: the strings.Builder (buf in client.go, sig in
                \* part_000)
  sign,         \* per run: the hex signature
  at            \* per run: position in the signing step

signVars == << quantity, params, keys, buf, sign, at >>

\* the pagination loop of OpenOrders and MyTrades
VARIABLES
  op,           \* the operation called
  page,         \* var page int
  count,        \* the count of the first page
  result,       \* var result []Order / []Trade
  fetched,      \* history: the page fetches made, in order
  returned,     \* what the operation returned
  paging        \* position in the operation

pageVars == << op, page, count, result, fetched, returned, paging >>

\* CreateOrder
VARIABLES
  symbol,       \* the symbol argument
  side,         \* the side argument
  kind,         \* the kind argument
  order,        \* the order GetOrder returned
  calls,        \* history: the requests CreateOrder has made, in order
  created,      \* what CreateOrder returned, or that it panicked
  creating      \* position in CreateOrder

orderVars == << symbol, side, kind, order, calls, created, creating >>

\* the attempts of one call of post, each with its own signing step
VARIABLES
  heap,         \* the parameter maps in memory: the caller's and the copy
  original,     \* history: the caller's map as it was handed to post
  working,      \* the map the attempt in progress works on
  stamp,        \* the time / nonce the attempt in progress has read
  paced,        \* history: the instant the attempt's BeforeRequest returned
  requests,     \* history: the requests handed to the transport, in order
  trying        \* position in the call

attemptVars == << heap, original, working, stamp, paced, requests, trying >>

\* what the dispatcher steps leave alone
others == << signVars, pageVars, orderVars, attemptVars >>

vars == << pacerVars, others >>

\* history keeps durations up to a minute, the longest period
Capped(d) == IF d > Minute THEN Minute ELSE d

NoHist ==
  [before |-> 0, after |-> 0, reject |-> 0, sent |-> 0, tooMany |-> 0,
   gap |-> Minute]

(* ------------------------------- pacer --------------------------------- *)

\* time.Since(lastRequest)
Since(t) == IF t = ZeroTime THEN MaxDuration ELSE now - t

\* variant: a rate override wins over the cooldown
EffectiveRate_OverrideFirst(cd, r) ==
  IF r # 0 THEN r
  ELSE IF cd THEN RequestsPerSecond[RATE_LIMIT_COOL_DOWN]
  ELSE RequestsPerSecond[RATE_LIMIT_NORMAL]

\* BeforeRequest: the rate resolution
EffectiveRate(cd, r) ==
  IF cd THEN RequestsPerSecond[RATE_LIMIT_COOL_DOWN]
  ELSE IF r = 0 THEN RequestsPerSecond[RATE_LIMIT_NORMAL]
  ELSE r

\* variant: the sleep is one tick short of the deficit
SleepFor_Short(e, r) == IF e < Period(r) THEN Period(r) - e - 1 ELSE 0

\* BeforeRequest: the duration handed to time.Sleep, 0 when it does not sleep
SleepFor(e, r) == IF e < Period(r) THEN Period(r) - e ELSE 0

\* variant: BeforeRequest leaves the flag as it found it
Consumed_Kept(cd) == cd

\* BeforeRequest: the cooldown flag it leaves
Consumed(cd) == FALSE

\* variant: OnRateLimitError leaves the flag as it found it
Rejected_Unset(cd) == cd

\* OnRateLimitError: the cooldown flag it leaves
Rejected(cd) == TRUE

(* ----------------------------- dispatchers ----------------------------- *)

\* the package-level state and the callers before the first call
Fresh(cs) ==
  /\ pkg \in Packages
  /\ callers = cs
  /\ now = 1
  /\ cooldown = FALSE
  /\ lastRequest = ZeroTime
  /\ pc = [p \in Procs |-> "idle"]
  /\ fn = [p \in Procs |-> "post"]
  /\ rps = [p \in Procs |-> 0]
  /\ query = [p \in Procs |-> FALSE]
  /\ urlOk = [p \in Procs |-> TRUE]
  /\ elapsed = [p \in Procs |-> 0]
  /\ rate = [p \in Procs |-> 0]
  /\ slept = [p \in Procs |-> 0]
  /\ wake = [p \in Procs |-> 0]
  /\ resp = [p \in Procs |-> NoResp]
  /\ code = [p \in Procs |-> 0]
  /\ data = [p \in Procs |-> Absent]
  /\ err = [p \in Procs |-> Nil]
  /\ hist = [p \in Procs |-> NoHist]
  /\ afterReject = 3
  /\ lastSent = ZeroTime
  /\ rejectAt = ZeroTime
  /\ coolGap = Minute

\* no signing step is looked at
NoSigning ==
  /\ quantity = [r \in Runs |-> << >>]
  /\ params = [r \in Runs |-> << >>]
  /\ keys = [r \in Runs |-> << >>]
  /\ buf = [r \in Runs |-> << >>]
  /\ sign = [r \in Runs |-> << >>]
  /\ at = [r \in Runs |-> "start"]

\* what an operation has returned before it returns
NoReturn == [isNil |-> TRUE, items |-> << >>, err |-> Nil]

\* no paged operation is looked at
NoPaging ==
  /\ op = "OpenOrders"
  /\ page = 0
  /\ count = 0
  /\ result = << >>
  /\ fetched = << >>
  /\ returned = NoReturn
  /\ paging = "idle"

\* the order of a GetOrder that has not been made
NoOrder == [status |-> "NONE"]

\* what CreateOrder has returned before it returns
NoCreation == [id |-> "NONE", err |-> Nil, panic |-> FALSE]

\* no CreateOrder is looked at
NoCreating ==
  /\ symbol = << >>
  /\ side = "BUY"
  /\ kind = "LIMIT"
  /\ order = NoOrder
  /\ calls = << >>
  /\ created = NoCreation
  /\ creating = "idle"

\* no call of post is followed through its attempts
NoAttempts ==
  /\ heap = [m \in {"caller", "copy"} |-> << >>]
  /\ original = << >>
  /\ working = "caller"
  /\ stamp = << >>
  /\ paced = ZeroTime
  /\ requests = << >>
  /\ trying = "idle"

Start(cs) ==
  Fresh(cs) /\ NoSigning /\ NoPaging /\ NoCreating /\ NoAttempts

\* one caller: every dispatcher call returns before the next is made
Init == Start({1})

\* two goroutines call dispatchers of the same package
InitConc == Start(Procs)

\* what the transport may answer; two concurrent callers see the plain
\* answers only
Transport ==
  IF Cardinality(callers) = 1 THEN Responses
  ELSE { [kind |-> "resp", status |-> StatusOK, readok |-> TRUE,
          body |-> Body("suc", "0", Absent, Absent, PAYLOAD)],
         [kind |-> "resp", status |-> StatusTooManyRequests, readok |-> TRUE,
          body |-> NotJson] }

Horizon == IF Cardinality(callers) = 1 THEN MaxTime ELSE MaxTimeConc

\* where a caller may enter a dispatcher: each of two concurrent callers
\* makes one call
Callable == IF Cardinality(callers) = 1 THEN {"idle", "done"} ELSE {"idle"}

\* the arguments of a dispatcher call: query/params given, client.URL valid,
\* request can be built; two concurrent callers make well-formed calls
Arguments == IF Cardinality(callers) = 1 THEN BOOLEAN ELSE {TRUE}

\* time passes while a caller is between calls, asleep or waiting for the
\* transport; the steps in between take no time
Tick ==
  /\ now < Horizon
  /\ \E p \in callers : pc[p] \in {"idle", "done", "sleep", "wait"}
  /\ now' = now + 1
  /\ UNCHANGED others
  /\ UNCHANGED << pkg, callers, cooldown, lastRequest, pc, fn, rps, query,
                  urlOk, elapsed, rate, slept, wake, resp, code, data, err,
                  hist, afterReject, lastSent, rejectAt, coolGap >>

\* a public operation enters a dispatcher.  The looping dispatchers parse
\* client.URL before the loop and return at once when that fails; get_v1 and
\* get_v2 parse it inside the attempt.
Call(p) ==
  /\ p \in callers
  /\ pc[p] \in Callable
  /\ \E f \in Dispatchers(pkg), r \in RpsArgs, q \in Arguments, u \in Arguments :
       /\ fn' = [fn EXCEPT ![p] = f]
       /\ rps' = [rps EXCEPT ![p] =
                    IF f = "post" THEN r
                    ELSE RequestsPerSecond[RATE_LIMIT_NORMAL]]
       /\ query' = [query EXCEPT ![p] = q]
       /\ urlOk' = [urlOk EXCEPT ![p] = u]
       /\ pc' = [pc EXCEPT ![p] =
                   IF Looping(pkg, f) /\ ~u THEN "done" ELSE "call"]
       /\ err' = [err EXCEPT ![p] =
                    IF Looping(pkg, f) /\ ~u THEN << "URLPARSE" >> ELSE Nil]
  /\ code' = [code EXCEPT ![p] = 0]
  /\ data' = [data EXCEPT ![p] = Absent]
  /\ resp' = [resp EXCEPT ![p] = NoResp]
  /\ hist' = [hist EXCEPT ![p] = NoHist]
  /\ rate' = [rate EXCEPT ![p] = 0]
  /\ UNCHANGED others
  /\ UNCHANGED << pkg, callers, now, cooldown, lastRequest, elapsed,
                  slept, wake, afterReject, lastSent, rejectAt, coolGap >>

\* the default BeforeRequest hook is entered: elapsed := time.Since(lastRequest)
BeforeRequest(p) ==
  /\ pc[p] = "call"
  /\ elapsed' = [elapsed EXCEPT ![p] = Since(lastRequest)]
  /\ pc' = [pc EXCEPT ![p] = "pace"]
  /\ UNCHANGED others
  /\ UNCHANGED << pkg, callers, now, cooldown, lastRequest, fn, rps, query,
                  urlOk, rate, slept, wake, resp, code, data, err, hist,
                  afterReject, lastSent, rejectAt, coolGap >>

\* variant: the flag is cleared only by a BeforeRequest that sleeps
Pace_ClearedBySleep(p) ==
  /\ pc[p] = "pace"
  /\ rate' = [rate EXCEPT ![p] = EffectiveRate(cooldown, rps[p])]
  /\ slept' = [slept EXCEPT ![p] = SleepFor(elapsed[p], rate'[p])]
  /\ cooldown' = IF cooldown /\ slept'[p] > 0 THEN Consumed(cooldown)
                 ELSE cooldown
  /\ wake' = [wake EXCEPT ![p] = now + slept'[p]]
  /\ afterReject' = IF afterReject < 3 THEN afterReject + 1 ELSE 3
  /\ pc' = [pc EXCEPT ![p] = "sleep"]
  /\ UNCHANGED others
  /\ UNCHANGED << pkg, callers, now, lastRequest, fn, rps, query, urlOk,
                  elapsed, resp, code, data, err, hist, lastSent, rejectAt,
                  coolGap >>

\* the default BeforeRequest hook, from its test of cooldown to its call of
\* time.Sleep
Pace(p) ==
  /\ pc[p] = "pace"
  /\ rate' = [rate EXCEPT ![p] = EffectiveRate(cooldown, rps[p])]
  /\ cooldown' = IF cooldown THEN Consumed(cooldown) ELSE cooldown
  /\ slept' = [slept EXCEPT ![p] = SleepFor(elapsed[p], rate'[p])]
  /\ wake' = [wake EXCEPT ![p] = now + slept'[p]]
  /\ afterReject' = IF afterReject < 3 THEN afterReject + 1 ELSE 3
  /\ pc' = [pc EXCEPT ![p] = "sleep"]
  /\ UNCHANGED others
  /\ UNCHANGED << pkg, callers, now, lastRequest, fn, rps, query, urlOk,
                  elapsed, resp, code, data, err, hist, lastSent, rejectAt,
                  coolGap >>

\* variant: time.Sleep may return one tick before the duration is over
Wake_Early(p) ==
  /\ pc[p] = "sleep"
  /\ now + 1 >= wake[p]
  /\ pc' = [pc EXCEPT ![p] = "send"]
  /\ hist' = [hist EXCEPT ![p].before = @ + 1]
  /\ elapsed' = [elapsed EXCEPT ![p] = 0]
  /\ slept' = [slept EXCEPT ![p] = 0]
  /\ wake' = [wake EXCEPT ![p] = 0]
  /\ resp' = [resp EXCEPT ![p] = NoResp]
  /\ UNCHANGED others
  /\ UNCHANGED << pkg, callers, now, cooldown, lastRequest, fn, rps, query,
                  urlOk, rate, code, data, err,
                  afterReject, lastSent, rejectAt, coolGap >>

\* time.Sleep returns (never early), BeforeRequest returns nil, its locals
\* are gone, and the attempt defers AfterRequest
Wake(p) ==
  /\ pc[p] = "sleep"
  /\ now >= wake[p]
  /\ pc' = [pc EXCEPT ![p] = "send"]
  /\ hist' = [hist EXCEPT ![p].before = @ + 1]
  /\ elapsed' = [elapsed EXCEPT ![p] = 0]
  /\ slept' = [slept EXCEPT ![p] = 0]
  /\ wake' = [wake EXCEPT ![p] = 0]
  /\ resp' = [resp EXCEPT ![p] = NoResp]
  /\ UNCHANGED others
  /\ UNCHANGED << pkg, callers, now, cooldown, lastRequest, fn, rps, query,
                  urlOk, rate, code, data, err,
                  afterReject, lastSent, rejectAt, coolGap >>

\* fmt.Errorf of the GET dispatchers of client.go: "GET <what> <path>[?<query>]"
ErrWhatPath(m, what, q) ==
  IF q THEN << m, what, PATH, "?", QUERY >> ELSE << m, what, PATH >>

\* fmt.Errorf of the dispatchers of part_000: "GET <path>[?<query>] <what>"
ErrPathWhat(m, what, q) ==
  IF q THEN << m, PATH, "?", QUERY, what >> ELSE << m, PATH, what >>

\* the {code|msg, data} family: is this an error?
FailsV1(b) == b.valid /\ b.msg # Absent /\ b.msg # "suc"

\* the {code, message|details, result} family: is this an error?
FailsV2(b) == b.valid /\ b.code # Absent /\ b.code # "0"

\* the text the second family reports: details, else message, else the code
MsgV2(b) ==
  IF b.details # Absent THEN b.details
  ELSE IF b.message # Absent THEN b.message
  ELSE b.code

\* the status the looping dispatchers hand to their loop (0 with no response)
AttemptCode(pk, f, r) ==
  IF Looping(pk, f) /\ r.kind = "resp" THEN r.status ELSE 0

\* the error an attempt ends with, Nil when it yields the payload
AttemptErr(pk, f, q, r) ==
  IF r.kind = "neterr" THEN << "TRANSPORT" >>
  ELSE IF ~r.readok THEN << "READ" >>
  ELSE IF ProtocolV1(pk, f) THEN
    IF FailsV1(r.body) THEN << r.body.msg >>
    ELSE IF r.status # StatusOK THEN
      \* post tests len(params) == 0 on the copy that holds api_key, time, sign
      ErrWhatPath(Method(f), StatusText(r.status), f = "post" \/ q)
    ELSE IF ~r.body.valid THEN << "DECODE" >>
    ELSE Nil
  ELSE IF pk = "client" THEN
    IF FailsV2(r.body) THEN ErrWhatPath("GET", MsgV2(r.body), q)
    ELSE IF r.status < 200 \/ r.status >= 300 THEN
      ErrWhatPath("GET", StatusText(r.status), q)
    ELSE IF ~r.body.valid THEN << "DECODE" >>
    ELSE Nil
  ELSE
    IF FailsV2(r.body) THEN ErrPathWhat(Method(f), MsgV2(r.body), f = "get" /\ q)
    ELSE IF r.status < 200 \/ r.status >= 300 THEN
      ErrPathWhat(Method(f), StatusText(r.status), f = "get" /\ q)
    ELSE IF ~r.body.valid THEN << "DECODE" >>
    ELSE Nil

\* the payload an attempt ends with (output.Data / output.Result)
AttemptData(pk, f, q, r) ==
  IF AttemptErr(pk, f, q, r) = Nil THEN r.body.payload ELSE Absent

\* history: 1 when the transport answered with status 429
Is429(r) == IF r.kind = "resp" /\ r.status = 429 THEN 1 ELSE 0

\* variant: the test looks for another status
TooMany_ServerError(r) ==
  r.kind = "resp" /\ r.status = StatusInternalServerError

\* are we exceeding the rate limits?
TooMany(r) == r.kind = "resp" /\ r.status = StatusTooManyRequests

\* variant: the loop ends on status 200 only
Retry_UnlessOK(c) == c # StatusOK

\* the loop of the looping dispatchers goes round again
Retry(c) == c = StatusTooManyRequests

\* the attempt builds its request and transmits it.  get_v1 and get_v2
\* first parse client.URL, post builds the body and the http.Request; the
\* attempt ends with that error when one of them fails
Send(p) ==
  /\ pc[p] = "send"
  /\ \E built \in Arguments :
       IF \/ ~Looping(pkg, fn[p]) /\ ~urlOk[p]
          \/ fn[p] = "post" /\ ~built
       THEN /\ pc' = [pc EXCEPT ![p] = "defer"]
            /\ err' = [err EXCEPT ![p] =
                         IF fn[p] = "post" THEN << "NEWREQUEST" >>
                         ELSE << "URLPARSE" >>]
            /\ code' = [code EXCEPT ![p] = 0]
            /\ data' = [data EXCEPT ![p] = Absent]
            /\ UNCHANGED << hist, lastSent, rejectAt, coolGap >>
       ELSE /\ pc' = [pc EXCEPT ![p] = "wait"]
            /\ hist' = [hist EXCEPT ![p].sent = @ + 1,
                                    ![p].gap = Capped(Since(lastSent))]
            /\ lastSent' = now
            /\ coolGap' = Capped(Since(rejectAt))
            /\ rejectAt' = ZeroTime
            /\ UNCHANGED << err, code, data >>
  /\ UNCHANGED others
  /\ UNCHANGED << pkg, callers, now, cooldown, lastRequest, fn, rps, query,
                  urlOk, elapsed, rate, slept, wake, resp, afterReject >>

\* the transport returns; on a 429 the default OnRateLimitError sets the
\* flag; the attempt computes its results
Receive(p) ==
  /\ pc[p] = "wait"
  /\ \E r \in Transport :
       /\ resp' = [resp EXCEPT ![p] = r]
       /\ code' = [code EXCEPT ![p] = AttemptCode(pkg, fn[p], r)]
       /\ err' = [err EXCEPT ![p] = AttemptErr(pkg, fn[p], query[p], r)]
       /\ data' = [data EXCEPT ![p] = AttemptData(pkg, fn[p], query[p], r)]
       /\ IF TooMany(r)
          THEN /\ cooldown' = Rejected(cooldown)
               /\ hist' = [hist EXCEPT ![p].reject = @ + 1,
                                       ![p].tooMany = @ + Is429(r)]
               /\ afterReject' = 0
          ELSE /\ hist' = [hist EXCEPT ![p].tooMany = @ + Is429(r)]
               /\ UNCHANGED << cooldown, afterReject >>
       /\ rejectAt' = IF Is429(r) = 1 THEN now ELSE rejectAt
  /\ pc' = [pc EXCEPT ![p] = "defer"]
  /\ UNCHANGED others
  /\ UNCHANGED << pkg, callers, now, lastRequest, fn, rps, query, urlOk,
                  elapsed, rate, slept, wake, lastSent, coolGap >>

\* variant: AfterRequest is called at the successful return only
AfterRequest_OnSuccess(p) ==
  /\ pc[p] = "defer"
  /\ lastRequest' = IF err[p] = Nil THEN now ELSE lastRequest
  /\ hist' = [hist EXCEPT ![p].after = IF err[p] = Nil THEN @ + 1 ELSE @]
  /\ pc' = [pc EXCEPT ![p] = IF Looping(pkg, fn[p]) THEN "loop" ELSE "done"]
  /\ UNCHANGED others
  /\ UNCHANGED << pkg, callers, now, cooldown, fn, rps, query, urlOk,
                  elapsed, rate, slept, wake, resp, code, data, err,
                  afterReject, lastSent, rejectAt, coolGap >>

\* the deferred call of the default AfterRequest hook; get_v1 and get_v2
\* then return to their caller
AfterRequest(p) ==
  /\ pc[p] = "defer"
  /\ lastRequest' = now
  /\ hist' = [hist EXCEPT ![p].after = @ + 1]
  /\ pc' = [pc EXCEPT ![p] = IF Looping(pkg, fn[p]) THEN "loop" ELSE "done"]
  /\ UNCHANGED others
  /\ UNCHANGED << pkg, callers, now, cooldown, fn, rps, query, urlOk,
                  elapsed, rate, slept, wake, resp, code, data, err,
                  afterReject, lastSent, rejectAt, coolGap >>

\* variant: the loop gives up after the second attempt
Loop_Ceiling(p) ==
  /\ pc[p] = "loop"
  /\ pc' = [pc EXCEPT ![p] =
              IF Retry(code[p]) /\ hist[p].before < 2 THEN "call" ELSE "done"]
  /\ UNCHANGED others
  /\ UNCHANGED << pkg, callers, now, cooldown, lastRequest, fn, rps, query,
                  urlOk, elapsed, rate, slept, wake, resp, code, data, err,
                  hist, afterReject, lastSent, rejectAt, coolGap >>

\* if code != http.StatusTooManyRequests { break }; return data, err
Loop(p) ==
  /\ pc[p] = "loop"
  /\ pc' = [pc EXCEPT ![p] = IF Retry(code[p]) THEN "call" ELSE "done"]
  /\ UNCHANGED others
  /\ UNCHANGED << pkg, callers, now, cooldown, lastRequest, fn, rps, query,
                  urlOk, elapsed, rate, slept, wake, resp, code, data, err,
                  hist, afterReject, lastSent, rejectAt, coolGap >>

Next ==
  \/ Tick
  \/ \E p \in Procs : Call(p)
  \/ \E p \in Procs : BeforeRequest(p)
  \/ \E p \in Procs : Pace(p)
  \/ \E p \in Procs : Wake(p)
  \/ \E p \in Procs : Send(p)
  \/ \E p \in Procs : Receive(p)
  \/ \E p \in Procs : AfterRequest(p)
  \/ \E p \in Procs : Loop(p)

Spec == Init /\ [][Next]_vars

SpecConc == InitConc /\ [][Next]_vars

(* ---------------------------- the retry loop --------------------------- *)

\* time.Sleep: the clock reaches the instant the sleeper wakes at
Elapse(p) ==
  /\ pc[p] = "sleep"
  /\ now < wake[p]
  /\ now' = wake[p]
  /\ UNCHANGED << pkg, callers, cooldown, lastRequest, pc, fn, rps, query,
                  urlOk, elapsed, rate, slept, wake, resp, code, data, err,
                  hist, afterReject, lastSent, rejectAt, coolGap >>
  /\ UNCHANGED others

\* one dispatcher call
CallOnce(p) == pc[p] = "idle" /\ Call(p)

\* the exchange rejects at most MaxRejects attempts of a call with 429
Answer(p) ==
  /\ Receive(p)
  /\ Is429(resp'[p]) = 1 => hist[p].tooMany < MaxRejects

NextRetry ==
  \/ \E p \in Procs : CallOnce(p)
  \/ \E p \in Procs : BeforeRequest(p)
  \/ \E p \in Procs : Pace(p)
  \/ \E p \in Procs : Elapse(p)
  \/ \E p \in Procs : Wake(p)
  \/ \E p \in Procs : Send(p)
  \/ \E p \in Procs : Answer(p)
  \/ \E p \in Procs : AfterRequest(p)
  \/ \E p \in Procs : Loop(p)

\* the goroutine keeps running, sleeps end and the transport answers
SpecRetry == Init /\ [][NextRetry]_vars /\ WF_vars(NextRetry)

(* -------------------------- an installed hook -------------------------- *)

\* variant: AfterRequest is deferred before BeforeRequest is asked
Veto_Deferred(p) ==
  /\ pc[p] = "call"
  /\ code' = [code EXCEPT ![p] = 0]
  /\ data' = [data EXCEPT ![p] = Absent]
  /\ err' = [err EXCEPT ![p] = << "VETO" >>]
  /\ pc' = [pc EXCEPT ![p] = "defer"]
  /\ UNCHANGED << pkg, callers, now, cooldown, lastRequest, fn, rps, query,
                  urlOk, elapsed, rate, slept, wake, resp, hist,
                  afterReject, lastSent, rejectAt, coolGap >>
  /\ UNCHANGED others

\* the caller has put a hook in BeforeRequest that returns an error, or
\* else does what the default hook does; the attempt returns 0, nil, err
\* (get_v1, get_v2: the dispatcher returns nil, err)
Veto(p) ==
  /\ pc[p] = "call"
  /\ code' = [code EXCEPT ![p] = 0]
  /\ data' = [data EXCEPT ![p] = Absent]
  /\ err' = [err EXCEPT ![p] = << "VETO" >>]
  /\ pc' = [pc EXCEPT ![p] = IF Looping(pkg, fn[p]) THEN "loop" ELSE "done"]
  /\ UNCHANGED << pkg, callers, now, cooldown, lastRequest, fn, rps, query,
                  urlOk, elapsed, rate, slept, wake, resp, hist,
                  afterReject, lastSent, rejectAt, coolGap >>
  /\ UNCHANGED others

NextHook ==
  \/ \E p \in Procs : CallOnce(p)
  \/ \E p \in Procs : Veto(p)
  \/ \E p \in Procs : BeforeRequest(p)
  \/ \E p \in Procs : Pace(p)
  \/ \E p \in Procs : Elapse(p)
  \/ \E p \in Procs : Wake(p)
  \/ \E p \in Procs : Send(p)
  \/ \E p \in Procs : Answer(p)
  \/ \E p \in Procs : AfterRequest(p)
  \/ \E p \in Procs : Loop(p)

SpecHook == Init /\ [][NextHook]_vars

\* the caller has put a hook in OnRateLimitError that returns an error
\* when the exchange answers 429; it may or may not call the default hook
\* it replaced.  The attempt returns resp.StatusCode, nil, err (get_v1,
\* get_v2: the dispatcher returns nil, err) and the deferred AfterRequest
\* runs
RateLimitError(p) ==
  /\ pc[p] = "wait"
  /\ hist[p].tooMany < MaxRejects
  /\ \E r \in { t \in Transport : TooMany(t) } :
       /\ resp' = [resp EXCEPT ![p] = r]
       /\ code' = [code EXCEPT ![p] = AttemptCode(pkg, fn[p], r)]
       /\ hist' = [hist EXCEPT ![p].reject = @ + 1,
                               ![p].tooMany = @ + Is429(r)]
  /\ err' = [err EXCEPT ![p] = << "HOOK" >>]
  /\ data' = [data EXCEPT ![p] = Absent]
  /\ \E wrapped \in BOOLEAN :
       /\ cooldown' = IF wrapped THEN Rejected(cooldown) ELSE cooldown
       /\ afterReject' = IF wrapped THEN 0 ELSE afterReject
  /\ rejectAt' = now
  /\ pc' = [pc EXCEPT ![p] = "defer"]
  /\ UNCHANGED << pkg, callers, now, lastRequest, fn, rps, query, urlOk,
                  elapsed, rate, slept, wake, lastSent, coolGap >>
  /\ UNCHANGED others

NextRateLimit ==
  \/ \E p \in Procs : CallOnce(p)
  \/ \E p \in Procs : BeforeRequest(p)
  \/ \E p \in Procs : Pace(p)
  \/ \E p \in Procs : Elapse(p)
  \/ \E p \in Procs : Wake(p)
  \/ \E p \in Procs : Send(p)
  \/ \E p \in Procs : Answer(p)
  \/ \E p \in Procs : RateLimitError(p)
  \/ \E p \in Procs : AfterRequest(p)
  \/ \E p \in Procs : Loop(p)

SpecRateLimit == Init /\ [][NextRateLimit]_vars

(* ------------------------------ signing -------------------------------- *)
(* Strings are sequences of characters, so that concatenation and the      *)
(* byte order of sort.Strings are what they are in the code.  A value of   *)
(* a parameter map is a record: url.Values of client.go holds strings,     *)
(* map[string]interface{} of part_000 holds nil, strings, ints, float64s.  *)
(* A float64 is kept as its number of hundredths.                          *)

\* the characters of the parameter names, in ascending byte order
Bytes ==
  << "_", "a", "b", "e", "i", "k", "l", "m", "n", "o", "p", "q", "t", "u",
     "v", "y" >>

Ord(c) == CHOOSE i \in 1..Len(Bytes) : Bytes[i] = c

\* s < t for Go strings
RECURSIVE Less(_, _)
Less(s, t) ==
  IF t = << >> THEN FALSE
  ELSE IF s = << >> THEN TRUE
  ELSE IF Head(s) = Head(t) THEN Less(Tail(s), Tail(t))
  ELSE Ord(Head(s)) < Ord(Head(t))

RECURSIVE Insert(_, _)
Insert(k, s) ==
  IF s = << >> THEN << k >>
  ELSE IF Less(Head(s), k) THEN << Head(s) >> \o Insert(k, Tail(s))
  ELSE << k >> \o s

\* variant: the keys stay in the order the map iteration gave them
SortStrings_Missing(s) == s

\* sort.Strings(keys)
RECURSIVE SortStrings(_)
SortStrings(s) ==
  IF s = << >> THEN << >> ELSE Insert(Head(s), SortStrings(Tail(s)))

API_KEY == << "a", "p", "i", "_", "k", "e", "y" >>

TIME == << "t", "i", "m", "e" >>

SIGN == << "s", "i", "g", "n" >>

\* the name of the quantity parameter of CreateOrder
QuantityKey(pk) ==
  IF pk = "client" THEN << "v", "o", "l", "u", "m", "e" >>
  ELSE << "q", "u", "a", "n", "t", "i", "t", "y" >>

\* two more business parameters
BusinessKeys(pk) == { << "a" >>, << "b" >>, QuantityKey(pk) }

Digits == << "0", "1", "2", "3", "4", "5", "6", "7", "8", "9" >>

DigitOf(c) == CHOOSE d \in 0..9 : Digits[d + 1] = c

\* strconv.Itoa / strconv.FormatInt(_, 10) of a number that is not negative
RECURSIVE Itoa(_)
Itoa(n) ==
  IF n < 10 THEN << Digits[n + 1] >>
  ELSE Itoa(n \div 10) \o << Digits[(n % 10) + 1] >>

RECURSIVE Atoi(_)
Atoi(s) ==
  IF s = << >> THEN 0
  ELSE Atoi(SubSeq(s, 1, Len(s) - 1)) * 10 + DigitOf(s[Len(s)])

\* client.Key and client.Secret
KEY == << "K" >>

SECRET == << "S" >>

\* variant: the stamp is taken from the pacer's lastRequest
NONCE_LastRequest == Itoa(lastRequest)

\* the millisecond reading of time.Now(), as strconv.FormatInt writes it
NONCE == << "1", "7" >>

\* the float64 (in hundredths) a decimal numeral with at most two decimals
\* denotes
ParseFloat(t) ==
  LET dot == IF \E i \in 1..Len(t) : t[i] = "."
             THEN CHOOSE i \in 1..Len(t) : t[i] = "."
             ELSE Len(t) + 1
      frac == SubSeq(t, dot + 1, Len(t))
  IN  Atoi(SubSeq(t, 1, dot - 1)) * 100
      + (IF Len(frac) = 1 THEN Atoi(frac) * 10 ELSE Atoi(frac))

\* variant: two decimals are always written
FormatFloat_Fixed(f) ==
  Itoa(f \div 100) \o << "." >> \o Itoa((f % 100) \div 10) \o Itoa(f % 10)

\* strconv.FormatFloat(f, 'f', -1, 64): the fewest decimals that give f back
FormatFloat(f) ==
  IF f % 100 = 0 THEN Itoa(f \div 100)
  ELSE IF f % 10 = 0 THEN Itoa(f \div 100) \o << "." >> \o Itoa((f % 100) \div 10)
  ELSE Itoa(f \div 100) \o << "." >> \o Itoa((f % 100) \div 10) \o Itoa(f % 10)

NilValue == [type |-> "nil", num |-> 0, str |-> << >>]

StringValue(s) == [type |-> "string", num |-> 0, str |-> s]

IntValue(n) == [type |-> "int", num |-> n, str |-> << >>]

Float64Value(f) == [type |-> "float64", num |-> f, str |-> << >>]

\* the numerals a caller may write for the quantity of an order
Numerals ==
  { << "1", ".", "5" >>, << "1", ".", "5", "0" >>, << "2" >>,
    << "2", ".", "0" >> }

\* the values the business parameter a may be given
Values(pk) ==
  IF pk = "client" THEN { StringValue(<< >>), StringValue(<< "5" >>) }
  ELSE { NilValue, StringValue(<< >>), StringValue(<< "5" >>), IntValue(5) }

\* the values the business parameter b may be given
Pages(pk) ==
  IF pk = "client" THEN { StringValue(<< "5" >>) } ELSE { StringValue(<< "5" >>), IntValue(5) }

\* the value CreateOrder stores for the quantity written as t
QuantityValue(pk, t) ==
  IF pk = "client" THEN StringValue(FormatFloat(ParseFloat(t)))
  ELSE Float64Value(ParseFloat(t))

\* url.Values.Set / the map assignment
Set(ps, key, value) ==
  [k \in DOMAIN ps \cup {key} |-> IF k = key THEN value ELSE ps[k]]

\* the parameter maps handed to post: a and b are left out or given a
\* value, the quantity is there when the caller wrote one
ParamSets(pk, t) ==
  { IF t = << >> THEN ps ELSE Set(ps, QuantityKey(pk), QuantityValue(pk, t)) :
      ps \in [ {<< "a" >>, << "b" >>} -> Values(pk) ]
             \cup [ {<< "a" >>} -> Values(pk) ]
             \cup [ {<< "b" >>} -> Pages(pk) ]
             \cup { << >> } }

\* url.Values.Get: the string stored for key, "" when there is none
Get(ps, key) == IF key \in DOMAIN ps THEN ps[key].str ELSE << >>

\* params[key] of part_000: nil when there is none
Index(ps, key) == IF key \in DOMAIN ps THEN ps[key] ELSE NilValue

\* part_000: the text written for a value that is not nil
Render(v) ==
  CASE v.type = "int" -> Itoa(v.num)
    [] v.type = "float64" -> FormatFloat(v.num)
    [] OTHER -> v.str

\* what the loop over keys writes for one key
Piece(pk, ps, key) ==
  IF pk = "client"
  THEN IF Get(ps, key) # << >> THEN key \o Get(ps, key) ELSE << >>
  ELSE IF Index(ps, key) # NilValue THEN key \o Render(Index(ps, key))
       ELSE << >>

\* the loop over keys
RECURSIVE WriteParams(_, _, _)
WriteParams(pk, ps, ks) ==
  IF ks = << >> THEN << >>
  ELSE Piece(pk, ps, Head(ks)) \o WriteParams(pk, ps, Tail(ks))

\* hex of the SHA-256 digest: a text that tells the digested strings apart
Sha256(s) == << "sha256:" >> \o s

\* hex of the HMAC-SHA256 digest under key k
HmacSha256(k, s) == << "hmac-sha256:" >> \o k \o << ":" >> \o s

\* the orders in which a range over a map of these keys may yield them
Orders(ks) ==
  { o \in [1..Cardinality(ks) -> ks] :
      \A i, j \in 1..Cardinality(ks) : i # j => o[i] # o[j] }

\* the keys two parameter maps do not agree on
Differing(ps, qs) ==
  { k \in DOMAIN ps \cup DOMAIN qs :
      \/ k \notin DOMAIN ps
      \/ k \notin DOMAIN qs
      \/ (k \in DOMAIN ps /\ k \in DOMAIN qs /\ ps[k] # qs[k]) }

\* the inputs of two signing steps: the same parameter map, or two maps
\* that differ in one parameter
InitSign ==
  /\ Fresh({1})
  /\ quantity \in [Runs -> Numerals \cup {<< >>}]
  /\ params \in { [r \in Runs |-> IF r = 1 THEN ps ELSE qs] :
                     ps \in ParamSets(pkg, quantity[1]),
                     qs \in ParamSets(pkg, quantity[2]) }
  /\ Cardinality(Differing(params[1], params[2])) <= 1
  /\ keys = [r \in Runs |-> << >>]
  /\ buf = [r \in Runs |-> << >>]
  /\ sign = [r \in Runs |-> << >>]
  /\ at = [r \in Runs |-> "start"]
  /\ NoPaging
  /\ NoCreating
  /\ NoAttempts

\* dispatcher calls made between the two signing steps leave the pacer in
\* another state
EarlierCalls ==
  /\ at[1] = "done"
  /\ at[2] = "start"
  /\ lastRequest = ZeroTime
  /\ lastRequest' = now
  /\ cooldown' \in BOOLEAN
  /\ UNCHANGED << pkg, callers, now, pc, fn, rps, query, urlOk, elapsed,
                  rate, slept, wake, resp, code, data, err, hist,
                  afterReject, lastSent, rejectAt, coolGap >>
  /\ UNCHANGED << signVars, pageVars, orderVars, attemptVars >>

\* client.go: params.Set("api_key"), params.Set("time");
\* part_000: the nonce is read and path, "0", client.Key are written
Stamp(r) ==
  /\ at[r] = "start"
  /\ \A q \in Runs : q < r => at[q] = "done"
  /\ IF pkg = "client"
     THEN /\ params' = [params EXCEPT ![r] =
                          Set(Set(@, API_KEY, StringValue(KEY)), TIME, StringValue(NONCE))]
          /\ UNCHANGED buf
     ELSE /\ buf' = [buf EXCEPT ![r] = << PATH, "0" >> \o KEY]
          /\ UNCHANGED params
  /\ at' = [at EXCEPT ![r] = "range"]
  /\ UNCHANGED << quantity, keys, sign >>
  /\ UNCHANGED << pacerVars, pageVars, orderVars, attemptVars >>

\* for key := range params { keys = append(keys, key) }
RangeParams(r) ==
  /\ at[r] = "range"
  /\ \E o \in Orders(DOMAIN params[r]) : keys' = [keys EXCEPT ![r] = o]
  /\ at' = [at EXCEPT ![r] = "sort"]
  /\ UNCHANGED << quantity, params, buf, sign >>
  /\ UNCHANGED << pacerVars, pageVars, orderVars, attemptVars >>

\* sort.Strings(keys)
Sort(r) ==
  /\ at[r] = "sort"
  /\ keys' = [keys EXCEPT ![r] = SortStrings(@)]
  /\ at' = [at EXCEPT ![r] = "write"]
  /\ UNCHANGED << quantity, params, buf, sign >>
  /\ UNCHANGED << pacerVars, pageVars, orderVars, attemptVars >>

\* the loop over keys, the secret (client.go) or the nonce (part_000), the
\* digest; client.go stores it with params.Set("sign")
Sign(r) ==
  /\ at[r] = "write"
  /\ buf' = [buf EXCEPT ![r] =
               @ \o WriteParams(pkg, params[r], keys[r])
                 \o (IF pkg = "client" THEN SECRET ELSE NONCE)]
  /\ sign' = [sign EXCEPT ![r] =
                IF pkg = "client" THEN Sha256(buf'[r])
                ELSE HmacSha256(SECRET, buf'[r])]
  /\ params' = [params EXCEPT ![r] =
                  IF pkg = "client" THEN Set(@, SIGN, StringValue(sign'[r])) ELSE @]
  /\ at' = [at EXCEPT ![r] = "done"]
  /\ UNCHANGED << quantity, keys >>
  /\ UNCHANGED << pacerVars, pageVars, orderVars, attemptVars >>

NextSign ==
  \/ EarlierCalls
  \/ \E r \in Runs : Stamp(r)
  \/ \E r \in Runs : RangeParams(r)
  \/ \E r \in Runs : Sort(r)
  \/ \E r \in Runs : Sign(r)

SpecSign == InitSign /\ [][NextSign]_vars

(* ----------------------- the attempts of one post ----------------------- *)

\* the caller's map and the map an attempt is given
Maps == {"caller", "copy"}

\* client.go: copied := url.Values{}; for key, value := range params
\* { copied[key] = value }: the map the closure is called with
Copied_Alias(m) == m

Copied(m) == "copy"

\* the time an attempt reads: time.Now() at that moment, whatever an
\* earlier attempt read
Reading_Once(t, earlier) == IF earlier = << >> THEN t ELSE earlier

Reading(t, earlier) == t

\* one call of post with the parameters of a caller
InitAttempts ==
  /\ Fresh({1})
  /\ NoSigning
  /\ NoPaging
  /\ NoCreating
  /\ original \in UNION { ParamSets(pkg, t) : t \in Numerals \cup {<< >>} }
  /\ heap = [m \in Maps |-> IF m = "caller" THEN original ELSE << >>]
  /\ working = "caller"
  /\ stamp = << >>
  /\ paced = ZeroTime
  /\ requests = << >>
  /\ trying = "enter"

\* the top of the loop: client.go calls the closure with a copy of params,
\* part_000 runs the body on params itself
Enter ==
  /\ trying = "enter"
  /\ working' = IF pkg = "client" THEN Copied("caller") ELSE "caller"
  /\ heap' = [heap EXCEPT ![working'] = heap["caller"]]
  /\ trying' = "before"
  /\ UNCHANGED << original, stamp, paced, requests >>
  /\ UNCHANGED << pacerVars, signVars, pageVars, orderVars >>

\* BeforeRequest returns nil: the pacer has slept as long as it had to
BeforePost ==
  /\ trying = "before"
  /\ \E d \in {1, 2} : now' = now + d
  /\ paced' = now'
  /\ trying' = "sign"
  /\ UNCHANGED << heap, original, working, stamp, requests >>
  /\ UNCHANGED << pkg, callers, cooldown, lastRequest, pc, fn, rps, query,
                  urlOk, elapsed, rate, slept, wake, resp, code, data, err,
                  hist, afterReject, lastSent, rejectAt, coolGap >>
  /\ UNCHANGED << signVars, pageVars, orderVars >>

\* the signing step of the attempt and the request it hands to the
\* transport
SignAttempt ==
  /\ trying = "sign"
  /\ stamp' = Reading(Itoa(now), stamp)
  /\ \E o \in Orders(DOMAIN heap[working] \cup
                       (IF pkg = "client" THEN {API_KEY, TIME} ELSE {})) :
       LET stamped == IF pkg = "client"
                      THEN Set(Set(heap[working], API_KEY, StringValue(KEY)),
                               TIME, StringValue(stamp'))
                      ELSE heap[working]
           written == WriteParams(pkg, stamped, SortStrings(o))
           text == IF pkg = "client" THEN written \o SECRET
                   ELSE << PATH, "0" >> \o KEY \o written \o stamp'
           digest == IF pkg = "client" THEN Sha256(text)
                     ELSE HmacSha256(SECRET, text)
           sent == IF pkg = "client"
                   THEN Set(stamped, SIGN, StringValue(digest))
                   ELSE stamped
       IN /\ heap' = [heap EXCEPT ![working] = sent]
          /\ requests' = Append(requests,
                                [nonce |-> stamp', at |-> now, buf |-> text,
                                 sign |-> digest, form |-> sent])
  /\ trying' = "wait"
  /\ UNCHANGED << original, working, paced >>
  /\ UNCHANGED << pacerVars, signVars, pageVars, orderVars >>

\* the answer: a 429 sends the call back to the top of the loop, any other
\* answer ends it
AnswerAttempt ==
  /\ trying = "wait"
  /\ \/ /\ Len(requests) <= MaxRejects
        /\ trying' = "enter"
     \/ trying' = "done"
  /\ UNCHANGED << heap, original, working, stamp, paced, requests >>
  /\ UNCHANGED << pacerVars, signVars, pageVars, orderVars >>

NextAttempts ==
  \/ Enter
  \/ BeforePost
  \/ SignAttempt
  \/ AnswerAttempt

SpecAttempts == InitAttempts /\ [][NextAttempts]_vars

(* ----------------------------- pagination ------------------------------ *)

\* the operations that page
Paged == {"OpenOrders", "MyTrades"}

\* const pageSize of client.go
pageSize == 50

\* the counts a first page may report
Counts == {0, 50, 100, 120}

\* the numbers of items a page may hold
Lengths == {0, 20, 50}

\* the errors of a page fetch: post fails, or json.Unmarshal does
FetchErrors == { << "POST" >>, << "UNMARSHAL" >> }

\* params(symbol, page, pageSize) / params(symbol, page): the page is sent
\* when it is positive
PageParams(pk, pg) ==
  LET sized == IF pk = "client"
               THEN Set(<< >>, << "pageSize" >>, StringValue(Itoa(pageSize)))
               ELSE << >>
  IN  IF pg > 0
      THEN Set(sized, << "page" >>,
               IF pk = "client" THEN StringValue(Itoa(pg)) ELSE IntValue(pg))
      ELSE sized

\* the page a request asks the exchange for: the first when it names none
Asked(ps) ==
  IF << "page" >> \notin DOMAIN ps THEN 0
  ELSE IF ps[<< "page" >>].type = "int" THEN ps[<< "page" >>].num
  ELSE Atoi(ps[<< "page" >>].str)

\* the items of page pg when it holds n of them
Items(pg, n) == [j \in 1..n |-> << pg, j >>]

\* what the exchange may answer to a page fetch
Answers ==
  [ok : {TRUE}, count : Counts, n : Lengths, err : {Nil}]
    \cup [ok : {FALSE}, count : {0}, n : {0}, err : FetchErrors]

\* variant: the loop goes on while the count is not exceeded
More_Inclusive(len, cnt) == len <= cnt

\* the loop condition: len(result) < count
More(len, cnt) == len < cnt

\* variant: a failed fetch returns what was accumulated
Failed_Partial(items, e) ==
  [isNil |-> items = << >>, items |-> items, err |-> e]

\* return nil, err
Failed(items, e) == [isNil |-> TRUE, items |-> << >>, err |-> e]

\* return result, nil
Succeeded(items) == [isNil |-> items = << >>, items |-> items, err |-> Nil]

InitPages ==
  /\ Fresh({1})
  /\ NoSigning
  /\ NoCreating
  /\ NoAttempts
  /\ op \in Paged
  /\ page = 0
  /\ count = 0
  /\ result = << >>
  /\ fetched = << >>
  /\ returned = NoReturn
  /\ paging = "first"

\* count, orders, err := call(params(symbol, page, pageSize)), its error
\* test and the append
First ==
  /\ paging = "first"
  /\ \E a \in Answers :
       /\ fetched' = Append(fetched,
                        [page |-> Asked(PageParams(pkg, page)), ok |-> a.ok,
                         n |-> a.n, had |-> Len(result)])
       /\ count' = a.count
       /\ IF a.ok
          THEN /\ result' = result \o Items(Asked(PageParams(pkg, page)), a.n)
               /\ paging' = "loop"
               /\ UNCHANGED returned
          ELSE /\ returned' = Failed(result, a.err)
               /\ paging' = "done"
               /\ UNCHANGED result
  /\ UNCHANGED << op, page >>
  /\ UNCHANGED << pacerVars, signVars, orderVars, attemptVars >>

\* one round of the loop: the test, page++, the call, its error test and
\* the append; the model stops paging at page MaxPage
Again ==
  /\ paging = "loop"
  /\ More(Len(result), count)
  /\ page < MaxPage
  /\ page' = page + 1
  /\ \E a \in Answers :
       /\ fetched' = Append(fetched,
                        [page |-> Asked(PageParams(pkg, page')), ok |-> a.ok,
                         n |-> a.n, had |-> Len(result)])
       /\ IF a.ok
          THEN /\ result' = result \o Items(Asked(PageParams(pkg, page')), a.n)
               /\ paging' = "loop"
               /\ UNCHANGED returned
          ELSE /\ returned' = Failed(result, a.err)
               /\ paging' = "done"
               /\ UNCHANGED result
  /\ UNCHANGED << op, count >>
  /\ UNCHANGED << pacerVars, signVars, orderVars, attemptVars >>

\* the loop ends: return result, nil
Return ==
  /\ paging = "loop"
  /\ ~More(Len(result), count)
  /\ returned' = Succeeded(result)
  /\ paging' = "done"
  /\ UNCHANGED << op, page, count, result, fetched >>
  /\ UNCHANGED << pacerVars, signVars, orderVars, attemptVars >>

NextPages == First \/ Again \/ Return

SpecPages == InitPages /\ [][NextPages]_vars

\* the rounds of the loop past page MaxPage: the same test, page++, call,
\* error test and append; the model keeps no history of these fetches,
\* counts their pages up to parity and marks their items as of one page
Beyond ==
  /\ paging = "loop"
  /\ More(Len(result), count)
  /\ page >= MaxPage
  /\ page' = IF page = MaxPage THEN MaxPage + 1 ELSE MaxPage
  /\ \E a \in Answers :
       IF a.ok
       THEN /\ result' = result \o Items(MaxPage + 1, a.n)
            /\ paging' = "loop"
            /\ UNCHANGED returned
       ELSE /\ returned' = Failed(result, a.err)
            /\ paging' = "done"
            /\ UNCHANGED result
  /\ UNCHANGED << op, count, fetched >>
  /\ UNCHANGED << pacerVars, signVars, orderVars, attemptVars >>

NextPaging == First \/ Again \/ Beyond \/ Return

\* the goroutine keeps running and every page fetch returns
SpecPaging == InitPages /\ [][NextPaging]_vars /\ WF_vars(NextPaging)

(* ----------------------------- CreateOrder ----------------------------- *)

ORDER_STATUS_FILLED == "FILLED"

ORDER_STATUS_REJECTED == "REJECTED"

ORDER_STATUS_EXPIRED == "EXPIRED"

\* the statuses of a re-fetched order; REJECTED is a status of part_000
OrderStatuses(pk) ==
  IF pk = "client" THEN {ORDER_STATUS_FILLED, ORDER_STATUS_EXPIRED}
  ELSE {ORDER_STATUS_FILLED, ORDER_STATUS_REJECTED, ORDER_STATUS_EXPIRED}

\* instrument names as the exchange and the package write them (BTC_USDT),
\* and with a slash
Symbols == { << "BTC", "_", "USDT" >>, << "BTC", "/", "USDT" >> }

OrderTypes(pk) ==
  IF pk = "client" THEN {"LIMIT", "MARKET"}
  ELSE {"LIMIT", "MARKET", "STOP_LIMIT"}

OrderSides == {"BUY", "SELL"}

\* strings.Split(s, sep) for a separator of one character
RECURSIVE Split(_, _)
Split(s, sep) ==
  IF \A i \in 1..Len(s) : s[i] # sep THEN << s >>
  ELSE LET i == CHOOSE i \in 1..Len(s) :
                  s[i] = sep /\ \A j \in 1..(i - 1) : s[j] # sep
       IN  << SubSeq(s, 1, i - 1) >> \o Split(SubSeq(s, i + 1, Len(s)), sep)

\* the order id the exchange hands out
OrderId == "ID"

\* the id CreateOrder returns when it has none: 0 / nil
NoOrderId(pk) == IF pk = "client" THEN "0" ELSE "nil"

\* the fmt.Errorf of the expired branch: the price is the ticker's last
\* price or the price argument, the balance the account's or 0
Cannot(price, balance) ==
  << "CANNOT", price, balance >>

\* the branch of an expired order panics when it indexes past the parts
\* of the symbol
Panics(pk, sym) == pk = "part000" /\ Len(Split(sym, "/")) < 2

InitOrder ==
  /\ Fresh({1})
  /\ NoSigning
  /\ NoPaging
  /\ NoAttempts
  /\ symbol \in Symbols
  /\ side \in OrderSides
  /\ kind \in OrderTypes(pkg)
  /\ order = NoOrder
  /\ calls = << >>
  /\ created = NoCreation
  /\ creating = "start"

\* post of the order and json.Unmarshal of its answer
Create ==
  /\ creating = "start"
  /\ calls' = Append(calls, "post")
  /\ \E answer \in {"POST", "UNMARSHAL", "ok"} :
       IF answer = "ok"
       THEN /\ creating' = "created"
            /\ UNCHANGED created
       ELSE /\ creating' = "done"
            /\ created' = [id |-> NoOrderId(pkg), err |-> << answer >>,
                           panic |-> FALSE]
  /\ UNCHANGED << symbol, side, kind, order >>
  /\ UNCHANGED << pacerVars, signVars, pageVars, attemptVars >>

\* client.GetOrder(symbol, id) and the tests of its error and of the status
Refetch ==
  /\ creating = "created"
  /\ calls' = Append(calls, "GetOrder")
  /\ \/ /\ creating' = "done"
        /\ created' = [id |-> OrderId, err |-> << "GETORDER" >>,
                       panic |-> FALSE]
        /\ UNCHANGED order
     \/ \E st \in OrderStatuses(pkg) :
          /\ order' = [status |-> st]
          /\ IF st = ORDER_STATUS_REJECTED
             THEN /\ creating' = "done"
                  /\ created' = [id |-> OrderId, err |-> << "REJECTED" >>,
                                 panic |-> FALSE]
             ELSE IF st = ORDER_STATUS_EXPIRED
             THEN IF Panics(pkg, symbol)
                  THEN /\ creating' = "done"
                       /\ created' = [id |-> NoOrderId(pkg), err |-> Nil,
                                      panic |-> TRUE]
                  ELSE /\ creating' = IF kind = "MARKET" THEN "ticker"
                                      ELSE "account"
                       /\ created' = [id |-> OrderId,
                                      err |-> Cannot("price", "0"),
                                      panic |-> FALSE]
             ELSE /\ creating' = "done"
                  /\ created' = [id |-> OrderId, err |-> Nil, panic |-> FALSE]
  /\ UNCHANGED << symbol, side, kind >>
  /\ UNCHANGED << pacerVars, signVars, pageVars, attemptVars >>

\* client.Ticker(symbol) for the message of a market order
Ticker ==
  /\ creating = "ticker"
  /\ calls' = Append(calls, "Ticker")
  /\ \E ok \in BOOLEAN :
       created' = [created EXCEPT !.err =
                     Cannot(IF ok THEN "last" ELSE "price", "0")]
  /\ creating' = "account"
  /\ UNCHANGED << symbol, side, kind, order >>
  /\ UNCHANGED << pacerVars, signVars, pageVars, attemptVars >>

\* client.Account for the message, and the return of id and message
Account ==
  /\ creating = "account"
  /\ calls' = Append(calls, "Account")
  /\ \E ok \in BOOLEAN :
       created' = [created EXCEPT !.err =
                     Cannot(@[2], IF ok THEN "available" ELSE "0")]
  /\ creating' = "done"
  /\ UNCHANGED << symbol, side, kind, order >>
  /\ UNCHANGED << pacerVars, signVars, pageVars, attemptVars >>

NextOrder == Create \/ Refetch \/ Ticker \/ Account

SpecOrder == InitOrder /\ [][NextOrder]_vars

(* ------------------------------- claims -------------------------------- *)

Range(sq) == { sq[i] : i \in 1..Len(sq) }

Max(a, b) == IF a > b THEN a ELSE b

\* the rate a call asks for: its rps, the normal rate when rps is 0
Requested(r) == IF r # 0 THEN r ELSE RequestsPerSecond[RATE_LIMIT_NORMAL]

\* the response is a success of the dispatcher's protocol family
Successful(pk, f, r) ==
  /\ r.kind = "resp" /\ r.readok /\ r.status = StatusOK /\ r.body.valid
  /\ IF ProtocolV1(pk, f) THEN r.body.msg = "suc" ELSE r.body.code = "0"

\* the response is an HTTP 200 whose envelope signals failure in the
\* dispatcher's protocol family
EnvelopeFailure(pk, f, r) ==
  /\ r.kind = "resp" /\ r.readok /\ r.status = StatusOK /\ r.body.valid
  /\ IF ProtocolV1(pk, f)
     THEN r.body.msg \notin {Absent, "suc"}
     ELSE r.body.code \notin {Absent, "0"}

\* the texts the server put in the envelope
ServerTexts(pk, f, r) ==
  IF ProtocolV1(pk, f) THEN {r.body.msg}
  ELSE {r.body.message, r.body.details} \ {Absent}

\* C1: one caller, default hooks: the first BeforeRequest after an
\* OnRateLimitError paces with the cooldown rate whatever its rps argument,
\* and the BeforeRequest after that one (no rejection in between) paces
\* with the rate the call asked for.
C1_CooldownThenRevert ==
  \A p \in callers :
    pc[p] = "sleep" =>
      /\ afterReject = 1 =>
            /\ rate[p] = RequestsPerSecond[RATE_LIMIT_COOL_DOWN]
            /\ slept[p] = Max(0, Period(RequestsPerSecond[RATE_LIMIT_COOL_DOWN]) - elapsed[p])
      /\ afterReject = 2 =>
            /\ rate[p] = Requested(rps[p])
            /\ slept[p] = Max(0, Period(Requested(rps[p])) - elapsed[p])

\* a second BeforeRequest after a rejection, asked for a rate of its own
\* and sleeping for it
C1_Witness ==
  /\ pc[1] = "sleep" /\ afterReject = 2 /\ rps[1] = 2
  /\ rate[1] = 2 /\ slept[1] > 0

\* C2: in the looping dispatchers a call that ends on a success response
\* returns its payload and a nil error, has called OnRateLimitError once per
\* 429 answer and has transmitted one request more than it got 429 answers;
\* a 429 answer never ends the call.
C2_RetryUntilSuccess ==
  \A p \in callers :
    (pc[p] = "done" /\ Looping(pkg, fn[p]) /\ resp[p].kind = "resp") =>
      /\ resp[p].status # StatusTooManyRequests
      /\ Successful(pkg, fn[p], resp[p]) =>
            /\ err[p] = Nil
            /\ data[p] = resp[p].body.payload
            /\ hist[p].reject = hist[p].tooMany
            /\ hist[p].sent = hist[p].tooMany + 1

\* a call that got 429 twice and then a success
C2_Witness ==
  /\ pc[1] = "done" /\ Looping(pkg, fn[1])
  /\ Successful(pkg, fn[1], resp[1])
  /\ hist[1].tooMany = 2 /\ hist[1].sent = 3 /\ data[1] = PAYLOAD

\* C3: no dispatcher of client.go returns to its caller the error of an
\* attempt that was answered with HTTP 429.
C3_NoErrorFrom429 ==
  \A p \in callers :
    (pc[p] = "done" /\ pkg = "client") =>
      ~(resp[p].kind = "resp" /\ resp[p].status = StatusTooManyRequests
        /\ err[p] # Nil)

\* C4: one caller, default hooks: BeforeRequest hands time.Sleep exactly the
\* deficit 1/R - elapsed when elapsed < 1/R and does not sleep otherwise,
\* and when it has returned at least 1/R has passed since lastRequest.
C4_PacedAtLeastPeriod ==
  \A p \in callers :
    /\ pc[p] = "sleep" =>
          /\ elapsed[p] < Period(rate[p]) => slept[p] = Period(rate[p]) - elapsed[p]
          /\ elapsed[p] >= Period(rate[p]) => slept[p] = 0
    /\ pc[p] = "send" => Since(lastRequest) >= Period(rate[p])

\* BeforeRequest sleeps the one tick missing to a period of two
C4_Witness ==
  /\ pc[1] = "sleep" /\ rate[1] = 2 /\ elapsed[1] = 1 /\ slept[1] = 1

\* C5: the rate BeforeRequest resolves is the cooldown rate when the flag is
\* set, else rps when rps is non-zero, else the normal rate, and the flag is
\* clear afterwards.
C5_RateResolution ==
  [][ \A p \in callers :
        (pc[p] = "pace" /\ pc'[p] = "sleep") =>
          /\ rate'[p] = IF cooldown THEN RequestsPerSecond[RATE_LIMIT_COOL_DOWN]
                        ELSE IF rps[p] # 0 THEN rps[p]
                        ELSE RequestsPerSecond[RATE_LIMIT_NORMAL]
          /\ cooldown' = FALSE ]_vars

\* the flag was set and the call asked for a rate of its own
C5_Witness ==
  /\ pc[1] = "sleep" /\ rps[1] = 2 /\ afterReject = 1
  /\ rate[1] = RequestsPerSecond[RATE_LIMIT_COOL_DOWN] /\ ~cooldown

\* C6: an attempt whose BeforeRequest returned nil has one AfterRequest
\* pending while it runs and has called it exactly once when it has ended,
\* whatever its outcome, so lastRequest is set again by every attempt; the
\* next BeforeRequest of the loop starts after it.
C6_AfterRequestOnce ==
  \A p \in callers :
    /\ pc[p] \in {"send", "wait", "defer"} => hist[p].after + 1 = hist[p].before
    /\ pc[p] \in {"call", "pace", "sleep", "loop", "done"} =>
          hist[p].after = hist[p].before
    /\ (pc[p] = "loop" /\ hist[p].before > 0) => lastRequest = now

\* an attempt that ended on a transport error has called AfterRequest
C6_Witness ==
  /\ pc[1] = "loop" /\ resp[1] = NetErr
  /\ hist[1].before = 1 /\ hist[1].after = 1 /\ lastRequest = now

\* C7: callers running concurrently on the shared pacer state: no request
\* is transmitted (and in flight) less than the period 1/R of its own rate
\* after the request before it.
C7_SpacedTransmissions ==
  \A p \in callers :
    pc[p] = "wait" => hist[p].gap >= Period(rate[p])

\* C8: one caller, default hooks: the request that follows a 429 answer is
\* transmitted at least a cooldown period after that answer, whatever rps
\* was asked for, and the flag is already set while the AfterRequest of the
\* rejected attempt is pending.
C8_CooldownBeforeRetry ==
  /\ coolGap >= Period(RequestsPerSecond[RATE_LIMIT_COOL_DOWN])
  /\ \A p \in callers :
       (pc[p] = "defer" /\ resp[p].kind = "resp"
        /\ resp[p].status = StatusTooManyRequests) => cooldown

\* the retry of a rejected call that asked for a rate of its own is in flight
C8_Witness ==
  /\ pc[1] = "wait" /\ hist[1].tooMany = 1 /\ hist[1].sent = 2
  /\ rps[1] = 2 /\ coolGap = Period(RequestsPerSecond[RATE_LIMIT_COOL_DOWN])

\* C9: in every dispatcher an HTTP 200 whose envelope signals failure ends
\* the call with a non-nil error and no payload, and the error holds the
\* server's message and the path, and the query string of a GET that has one.
C9_ApplicationError ==
  \A p \in callers :
    (pc[p] = "done" /\ EnvelopeFailure(pkg, fn[p], resp[p])) =>
      /\ err[p] # Nil
      /\ data[p] = Absent
      /\ ServerTexts(pkg, fn[p], resp[p]) # {} =>
            ServerTexts(pkg, fn[p], resp[p]) \cap Range(err[p]) # {}
      /\ PATH \in Range(err[p])
      /\ (Method(fn[p]) = "GET" /\ query[p]) => QUERY \in Range(err[p])

\* C10: a transport error ends the call: the attempt is the last one, the
\* caller gets the transport error and no payload, OnRateLimitError is not
\* called for it and the cooldown flag stays as the attempt's BeforeRequest
\* left it.
C10_TransportErrorEndsCall ==
  \A p \in callers :
    resp[p] = NetErr =>
      /\ pc[p] \in {"defer", "loop", "done"}
      /\ err[p] = << "TRANSPORT" >>
      /\ data[p] = Absent
      /\ hist[p].reject = hist[p].tooMany
      /\ hist[p].sent = hist[p].tooMany + 1
      /\ ~cooldown

\* a looping dispatcher returned the transport error of its retry
C10_Witness ==
  /\ pc[1] = "done" /\ resp[1] = NetErr /\ Looping(pkg, fn[1])
  /\ hist[1].tooMany = 1 /\ hist[1].sent = 2 /\ err[1] = << "TRANSPORT" >>

\* the parameters the caller handed to post
Business(ps) ==
  [k \in DOMAIN ps \cap BusinessKeys(pkg) |-> ps[k]]

Without(ps, key) == [k \in DOMAIN ps \ {key} |-> ps[k]]

\* a value that is nil or the empty string
Empty(v) == v = NilValue \/ v = StringValue(<< >>)

\* C11: a parameter whose value is the empty string or absent contributes
\* nothing to the signed string: signing P, where a is mapped to an empty
\* value, and signing P without a give the same signature (same key, secret
\* and nonce), in client.go and in part_000.
C11_EmptyContributesNothing ==
  \A r, q \in Runs :
    (at[r] = "done" /\ at[q] = "done") =>
      \A k \in DOMAIN Business(params[r]) :
        ( /\ Empty(params[r][k])
          /\ Business(params[q]) = Without(Business(params[r]), k) )
        => (buf[r] = buf[q] /\ sign[r] = sign[q])

Ascending(ks) == \A i, j \in 1..Len(ks) : i < j => Less(ks[i], ks[j])

\* what the loop writes for the keys of the set ks taken in ascending order
RECURSIVE Join(_, _)
Join(ps, ks) ==
  IF ks = {} THEN << >>
  ELSE LET k == CHOOSE k \in ks : \A j \in ks \ {k} : Less(k, j)
       IN  Piece(pkg, ps, k) \o Join(ps, ks \ {k})

\* the canonical string of the parameters ps
Canonical(ps) ==
  IF pkg = "client"
  THEN Join(ps, DOMAIN Business(ps) \cup {API_KEY, TIME}) \o SECRET
  ELSE << PATH, "0" >> \o KEY \o Join(ps, DOMAIN Business(ps)) \o NONCE

\* C12: the keys are written in ascending byte order whatever order the map
\* gave them in: the signed string of client.go is key||value over the
\* sorted keys of the business parameters, api_key and time, then the
\* secret; that of part_000 is path, "0", the api key, key||value over the
\* sorted business keys, then the nonce.
C12_SortedCanonicalString ==
  \A r \in Runs :
    /\ at[r] \in {"write", "done"} =>
         /\ Ascending(keys[r])
         /\ Range(keys[r]) = DOMAIN params[r] \ {SIGN}
    /\ at[r] = "done" =>
         /\ buf[r] = Canonical(params[r])
         /\ pkg = "client" =>
              /\ Get(params[r], API_KEY) = KEY
              /\ Get(params[r], TIME) = NONCE

C12_Witness ==
  /\ at[1] = "done"
  /\ Len(keys[1]) >= 3
  /\ buf[1] = Canonical(params[1])
  /\ at[2] = "sort"
  /\ ~Ascending(keys[2])

\* C13: two signing steps that are handed the same path, parameters, key,
\* secret and nonce produce the same signature, whatever cooldown and
\* lastRequest hold and whatever order the map iteration takes.
C13_Deterministic ==
  ( /\ at[1] = "done"
    /\ at[2] = "done"
    /\ Business(params[1]) = Business(params[2]) )
  => sign[1] = sign[2]

C13_Witness ==
  /\ at[1] = "done"
  /\ at[2] = "done"
  /\ Business(params[1]) = Business(params[2])
  /\ Cardinality(DOMAIN Business(params[1])) >= 2
  /\ cooldown
  /\ lastRequest # ZeroTime
  /\ sign[1] = sign[2]

\* a numeral without its superfluous zeros
RECURSIVE Shortest(_)
Shortest(t) ==
  IF \A i \in 1..Len(t) : t[i] # "." THEN t
  ELSE IF t[Len(t)] \in {"0", "."} THEN
         IF t[Len(t)] = "." THEN SubSeq(t, 1, Len(t) - 1)
         ELSE Shortest(SubSeq(t, 1, Len(t) - 1))
  ELSE t

\* the texts the signed string holds for the numbers of ps
Rendered(ps) ==
  { Render(ps[k]) : k \in { j \in DOMAIN Business(ps) :
                             ps[j].type \in {"int", "float64"} } }
  \cup { ps[k].str : k \in DOMAIN ps \cap {QuantityKey(pkg)} }

\* C20: the signed string holds every number in one decimal form, without
\* exponent and without superfluous zeros, so two numerals of the same
\* number, such as 1.50 and 1.5, give the same signed string and signature.
C20_CanonicalNumerals ==
  /\ \A r \in Runs :
       at[r] = "done" =>
         /\ \A t \in Rendered(params[r]) \ {<< >>} :
              /\ Shortest(t) = t
              /\ \A i \in 1..Len(t) : t[i] \in Range(Digits) \cup {"."}
         /\ quantity[r] # << >> =>
              \E i \in 1..Len(buf[r]) :
                SubSeq(buf[r], i, i + Len(Shortest(quantity[r])) - 1)
                  = Shortest(quantity[r])
  /\ ( /\ at[1] = "done"
       /\ at[2] = "done"
       /\ Shortest(quantity[1]) = Shortest(quantity[2])
       /\ Without(Business(params[1]), QuantityKey(pkg))
            = Without(Business(params[2]), QuantityKey(pkg)) )
     => (buf[1] = buf[2] /\ sign[1] = sign[2])

C20_Witness ==
  /\ at[1] = "done"
  /\ at[2] = "done"
  /\ quantity[1] = << "1", ".", "5" >>
  /\ quantity[2] = << "1", ".", "5", "0" >>
  /\ buf[1] = buf[2]
  /\ sign[1] = sign[2]

\* the pages of the fetches fs, one after the other
RECURSIVE Concatenated(_)
Concatenated(fs) ==
  IF fs = << >> THEN << >>
  ELSE Concatenated(SubSeq(fs, 1, Len(fs) - 1))
         \o Items(fs[Len(fs)].page, fs[Len(fs)].n)

\* a page of the exchange that holds total items: pageSize of them, or
\* what is left
Full(total, had) ==
  IF total - had < pageSize THEN total - had ELSE pageSize

C15_FailedFetchEndsPaging ==
  /\ \A i \in 1..Len(fetched) :
       ~fetched[i].ok =>
          /\ i = Len(fetched)
          /\ paging = "done"
          /\ returned.err \in FetchErrors
  /\ paging = "done" /\ returned.err # Nil =>
       /\ returned.isNil
       /\ returned.items = << >>
       /\ ~fetched[Len(fetched)].ok

C15_Witness ==
  /\ paging = "done"
  /\ returned.err # Nil
  /\ returned.isNil
  /\ Len(fetched) = 3
  /\ Len(result) > 0

\* C16: the retry loop of post (client.go) and of get and post (part_000)
\* makes attempt N+1 whenever the first N attempts were answered 429, makes
\* no attempt after one that returned another status code, and the call
\* returns once the exchange answers an attempt otherwise than by 429 or
\* the attempt fails.
C16_RetryLoopEnds ==
  /\ [](\A p \in callers :
          Looping(pkg, fn[p]) =>
            /\ hist[p].before <= hist[p].tooMany + 1
            /\ pc[p] = "loop" =>
                 (hist[p].before = hist[p].tooMany + 1) = (code[p] # 429)
            /\ (pc[p] = "done" /\ hist[p].before > 0) =>
                 /\ code[p] # 429
                 /\ hist[p].before = hist[p].tooMany + 1)
  /\ \A p \in {1} :
       (pc[p] = "call" /\ Looping(pkg, fn[p])) ~> (pc[p] = "done")

C16_Witness ==
  /\ pc[1] = "done"
  /\ Looping(pkg, fn[1])
  /\ hist[1].tooMany = MaxRejects
  /\ hist[1].before = MaxRejects + 1
  /\ hist[1].sent = MaxRejects + 1
  /\ code[1] = StatusOK

\* C17: when the installed BeforeRequest hook returns an error, the step
\* that takes the error and every later step of the call leave lastRequest,
\* cooldown and the counts of BeforeRequest returns, AfterRequest calls,
\* OnRateLimitError calls and transmissions as they are, no attempt
\* follows, and the call returns that error.
C17_VetoEndsCall ==
  [][\A p \in callers :
       /\ (pc[p] = "call" /\ err'[p] = << "VETO" >>) =>
            /\ pc'[p] \in {"loop", "done"}
            /\ UNCHANGED << lastRequest, cooldown, hist >>
       /\ (err[p] = << "VETO" >> /\ pc[p] # "done") =>
            /\ pc'[p] = "done"
            /\ err'[p] = << "VETO" >>
            /\ data'[p] = Absent
            /\ UNCHANGED << lastRequest, cooldown, hist >>]_vars

C17_Witness ==
  /\ pc[1] = "done"
  /\ err[1] = << "VETO" >>
  /\ fn[1] = "post"
  /\ hist[1].before = 1
  /\ hist[1].after = 1
  /\ hist[1].sent = 1
  /\ hist[1].reject = 1

\* C18: with one caller and the default hooks, cooldown is false from the
\* moment BeforeRequest has resolved the rate until the answer is in (also
\* when BeforeRequest had no need to sleep), and it is true only after an
\* answer of status 429 that no BeforeRequest and no transmission has
\* followed.
C18_CooldownWindow ==
  \A p \in callers :
    /\ pc[p] \in {"sleep", "send", "wait"} => ~cooldown
    /\ cooldown =>
         /\ rejectAt # ZeroTime
         /\ afterReject = 0
         /\ pc[p] \in {"defer", "loop", "call", "pace", "done"}

C18_Witness ==
  /\ pc[1] = "sleep"
  /\ afterReject = 1
  /\ slept[1] = 0
  /\ ~cooldown

\* C19: CreateOrder asks for the order only after the post of the order
\* succeeded; when the re-fetched order is expired it returns the order id
\* and a diagnostic error; the errors of the Ticker and Account lookups it
\* makes for that message are never what it returns.
C19_ExpiredOrderDiagnosed ==
  /\ \A i \in 1..Len(calls) :
       calls[i] = "GetOrder" =>
         /\ i = 2
         /\ calls[1] = "post"
         /\ creating # "done" \/ created.err \notin {<< "POST" >>, << "UNMARSHAL" >>}
  /\ (creating = "done" /\ order.status = ORDER_STATUS_EXPIRED) =>
       /\ ~created.panic
       /\ created.id = OrderId
       /\ created.err # Nil
       /\ created.err[1] = "CANNOT"
       /\ "Account" \in Range(calls)
       /\ (created.err[2] = "last") => "Ticker" \in Range(calls)

\* the canonical string of the caller's parameters ps under the nonce t
CanonicalAt(ps, t) ==
  IF pkg = "client"
  THEN Join(Set(Set(ps, API_KEY, StringValue(KEY)), TIME, StringValue(t)),
            DOMAIN ps \cup {API_KEY, TIME}) \o SECRET
  ELSE << PATH, "0" >> \o KEY \o Join(ps, DOMAIN ps) \o t

\* C21: every attempt of an authenticated call, retries included, is signed
\* afresh: its nonce is the time read after its own BeforeRequest returned,
\* and its signed string is the canonical string of the parameters the
\* caller handed in under that nonce; the api_key, time and sign of an
\* earlier attempt are no part of it.
C21_SignedAfresh ==
  \A i \in 1..Len(requests) :
    /\ requests[i].nonce = Itoa(requests[i].at)
    /\ i = Len(requests) /\ trying \in {"wait", "done"} =>
         requests[i].at = paced
    /\ requests[i].buf = CanonicalAt(original, requests[i].nonce)
    /\ requests[i].sign = (IF pkg = "client" THEN Sha256(requests[i].buf)
                           ELSE HmacSha256(SECRET, requests[i].buf))

\* a retry has been signed, later than the attempt before it
C21_Witness ==
  /\ Len(requests) >= 2
  /\ requests[2].at > requests[1].at
  /\ requests[2].buf # requests[1].buf
  /\ DOMAIN original # {}

\* C24: post of client.go leaves the map of the caller as it was handed in:
\* every attempt works on a copy, so the caller finds no api_key, time or
\* sign in it, neither during the call nor after it.
C24_CallerMapUnchanged ==
  pkg = "client" /\ trying # "idle" => heap["caller"] = original

\* post of client.go is over after a retry, and the copy holds what the
\* attempts stored
C24_Witness ==
  /\ pkg = "client"
  /\ trying = "done"
  /\ Len(requests) >= 2
  /\ {API_KEY, TIME, SIGN} \subseteq DOMAIN heap["copy"]
  /\ DOMAIN original # {}

\* C22: with one caller, the default hooks and the rates of the package,
\* the millisecond time stamps (nonces) of the signed requests strictly
\* increase: post transmits a request, a retry after a 429 included, at an
\* instant later than that of the transmission before it.
C22_NoncesIncrease ==
  [][\A p \in callers :
       fn[p] = "post" /\ hist'[p].sent = hist[p].sent + 1 =>
         /\ lastSent' = now
         /\ Since(lastSent) > 0]_vars

\* post transmits its retry after a 429, later than the rejected request
C22_Witness ==
  \E p \in callers :
    /\ fn[p] = "post"
    /\ pc[p] = "wait"
    /\ hist[p].tooMany >= 1
    /\ hist[p].sent >= 2
    /\ lastSent = now
    /\ rejectAt = ZeroTime
    /\ coolGap >= 1

\* C23: when the installed OnRateLimitError hook returns an error on a 429,
\* the dispatcher stops: it makes no further attempt and returns the error
\* of the hook, in the looping dispatchers (post of client.go, get and post
\* of part_000) as in get_v1 and get_v2.  While the error of the hook is
\* the error of the call, the call is on its way out or has returned.
C23_HookErrorEndsCall ==
  \A p \in callers :
    err[p] = << "HOOK" >> => pc[p] \in {"defer", "loop", "done"}

\* C25: OpenOrders and MyTrades terminate whenever every page fetch
\* returns, whatever the exchange answers: also when it answers pages of no
\* items while fewer items than the reported count have been accumulated.
C25_PagingEnds == <>(paging = "done")

\* C26: two callers running concurrently, default hooks: a call that the
\* exchange rejected with 429 has its own retry paced at the cooldown rate;
\* no interleaving lets the BeforeRequest of the other caller consume the
\* flag first.  Every BeforeRequest of a looping dispatcher that follows a
\* 429 answer to the same call has resolved the cooldown rate.
C26_OwnRetryCooledDown ==
  \A p \in callers :
    (/\ pc[p] = "sleep"
     /\ Looping(pkg, fn[p])
     /\ hist[p].tooMany >= 1
     /\ hist[p].before = hist[p].tooMany) =>
       rate[p] = RequestsPerSecond[RATE_LIMIT_COOL_DOWN]

\* C27: CreateOrder returns the zero / nil id exactly when the post of the
\* order or the decoding of its answer failed; whenever the post succeeded
\* and was decoded, the id it returns is the one the exchange handed out,
\* also when GetOrder fails or reports the order rejected or expired.
C27_IdOfCreatedOrder ==
  creating = "done" =>
    /\ created.id = NoOrderId(pkg) <=>
         created.err \in { << "POST" >>, << "UNMARSHAL" >> }
    /\ Len(calls) >= 2 => created.id = OrderId

====
